---------------------------- MODULE Spec2Model ----------------------------
(***************************************************************************)
(* A model of ResumeQueryAgent: the batch ingestion of PDF resumes         *)
(* (pdf_to_json.py) and the retrieval-augmented query script               *)
(* (json_resume_query.py).                                                 *)
(*                                                                         *)
(* Python strings are sequences of one-character strings, so that split,   *)
(* strip, lower and the ordering of strings are computed as Python         *)
(* computes them.  A text (an LLM output, the content of resume.json) is a *)
(* sequence of lexical tokens; json.dumps and json.loads are a printer and *)
(* a recursive-descent parser over tokens.                                 *)
(***************************************************************************)
EXTENDS Integers, Sequences, FiniteSets, TLC

(***************************************************************************)
(* Characters and Python's str operations                                  *)
(***************************************************************************)
UpperCase == <<"A","B","C","D","E","F","G","H","I","J","K","L","M",
               "N","O","P","Q","R","S","T","U","V","W","X","Y","Z">>
LowerCase == <<"a","b","c","d","e","f","g","h","i","j","k","l","m",
               "n","o","p","q","r","s","t","u","v","w","x","y","z">>

\* The code point of a character (ord): strings are ordered by code points.
Ord(c) ==
  IF \E i \in DOMAIN UpperCase : UpperCase[i] = c
  THEN 64 + (CHOOSE i \in DOMAIN UpperCase : UpperCase[i] = c)
  ELSE IF \E i \in DOMAIN LowerCase : LowerCase[i] = c
  THEN 96 + (CHOOSE i \in DOMAIN LowerCase : LowerCase[i] = c)
  ELSE CASE c = " " -> 32
         [] c = "(" -> 40
         [] c = ")" -> 41
         [] c = "," -> 44
         [] c = "." -> 46
         [] c = "/" -> 47

\* str.lower on one character.
LowerChar(c) ==
  IF \E i \in DOMAIN UpperCase : UpperCase[i] = c
  THEN LowerCase[CHOOSE i \in DOMAIN UpperCase : UpperCase[i] = c]
  ELSE c

\* str.lower
Lower(s) == [i \in DOMAIN s |-> LowerChar(s[i])]

\* Python's s < t on strings: lexicographic by code point.
RECURSIVE StrLess(_, _)
StrLess(s, t) ==
  IF t = <<>> THEN FALSE
  ELSE IF s = <<>> THEN TRUE
  ELSE IF Ord(Head(s)) # Ord(Head(t)) THEN Ord(Head(s)) < Ord(Head(t))
  ELSE StrLess(Tail(s), Tail(t))

IsSpace(c) == c = " "

\* str.strip(): leading and trailing whitespace removed.
RECURSIVE LStrip(_)
LStrip(s) == IF s # <<>> /\ IsSpace(Head(s)) THEN LStrip(Tail(s)) ELSE s

RECURSIVE RStrip(_)
RStrip(s) ==
  IF s # <<>> /\ IsSpace(s[Len(s)]) THEN RStrip(SubSeq(s, 1, Len(s) - 1)) ELSE s

Strip(s) == RStrip(LStrip(s))

\* re.split(r"[(),]", s): the pieces between delimiters, empty pieces kept.
SplitDelims == {"(", ")", ","}

RECURSIVE ReSplitFrom(_, _)
ReSplitFrom(s, cur) ==
  IF s = <<>> THEN <<cur>>
  ELSE IF Head(s) \in SplitDelims
       THEN <<cur>> \o ReSplitFrom(Tail(s), <<>>)
       ELSE ReSplitFrom(Tail(s), Append(cur, Head(s)))

ReSplit(s) == ReSplitFrom(s, <<>>)

Range(f) == {f[i] : i \in DOMAIN f}

\* sorted(S, key=str.lower) of a set S.  sorted is stable and a set iterates
\* in hash order, which differs from process to process: entries whose keys
\* are equal may come out in any order.
RECURSIVE SortedByLower(_)
SortedByLower(S) ==
  IF S = {} THEN {<<>>}
  ELSE LET least == {x \in S : \A y \in S : ~StrLess(Lower(y), Lower(x))}
       IN  UNION {{<<m>> \o r : r \in SortedByLower(S \ {m})} : m \in least}

(***************************************************************************)
(* normalize_skills                                                        *)
(***************************************************************************)
\* The cleaned, non-empty pieces of one skill string, in order.
CleanedParts(skill) ==
  LET parts == ReSplit(skill)
  IN  {Strip(parts[i]) : i \in DOMAIN parts} \ {<<>>}

\* The lists normalize_skills(skills_list) can return.
normalize_skills(skills_list) ==
  SortedByLower(UNION {CleanedParts(skills_list[i]) : i \in DOMAIN skills_list})

(***************************************************************************)
(* JSON values, json.dumps and json.loads                                  *)
(*                                                                         *)
(* A JSON value is a tree: a str (its characters in s), a list (its items  *)
(* in xs) or a dict (its keys in ks and their values in xs, in insertion   *)
(* order, as a Python dict keeps them).                                    *)
(***************************************************************************)
Str(chars) == [k |-> "str", s |-> chars, ks |-> <<>>, xs |-> <<>>]
List(items) == [k |-> "list", s |-> <<>>, ks |-> <<>>, xs |-> items]
Dict(keys, values) == [k |-> "dict", s |-> <<>>, ks |-> keys, xs |-> values]

\* dict.get(key, default)
Get(d, key, default) ==
  IF \E i \in DOMAIN d.ks : d.ks[i] = key
  THEN d.xs[CHOOSE i \in DOMAIN d.ks : d.ks[i] = key]
  ELSE default

\* Tokens of a text.  A string literal is the quote mark followed by the
\* string's characters; a word is a run of characters outside any literal.
LBracket == <<"[">>
RBracket == <<"]">>
LBrace == <<"{">>
RBrace == <<"}">>
Comma == <<",">>
Colon == <<":">>
Quoted(chars) == <<"\"">> \o chars
Word(chars) == <<"w">> \o chars
IsQuoted(tok) == Head(tok) = "\""

RECURSIVE JoinTokens(_, _)
JoinTokens(texts, sep) ==
  IF texts = <<>> THEN <<>>
  ELSE IF Len(texts) = 1 THEN texts[1]
  ELSE texts[1] \o <<sep>> \o JoinTokens(Tail(texts), sep)

\* json.dumps / json.dump: the text of a value.
RECURSIVE JsonDumps(_)
JsonDumps(v) ==
  CASE v.k = "str" -> <<Quoted(v.s)>>
    [] v.k = "list" ->
         <<LBracket>> \o JoinTokens([i \in DOMAIN v.xs |-> JsonDumps(v.xs[i])], Comma)
                      \o <<RBracket>>
    [] v.k = "dict" ->
         <<LBrace>>
           \o JoinTokens([i \in DOMAIN v.xs |->
                            <<Quoted(v.ks[i]), Colon>> \o JsonDumps(v.xs[i])], Comma)
           \o <<RBrace>>

\* The parser's result: whether a value was read, the value, and the index
\* of the first token after it.
ParseFail == [ok |-> FALSE, val |-> Str(<<>>), next |-> 0]
ParseOk(v, n) == [ok |-> TRUE, val |-> v, next |-> n]

\* A dict with key set to value: a repeated key keeps its first place and
\* takes the last value, as Python's decoder builds it.
DictSet(d, key, value) ==
  IF \E i \in DOMAIN d.ks : d.ks[i] = key
  THEN LET i == CHOOSE j \in DOMAIN d.ks : d.ks[j] = key
       IN  Dict(d.ks, [d.xs EXCEPT ![i] = value])
  ELSE Dict(Append(d.ks, key), Append(d.xs, value))

RECURSIVE ParseValue(_, _), ParseItems(_, _, _), ParseMembers(_, _, _)
ParseValue(toks, i) ==
  IF i > Len(toks) THEN ParseFail
  ELSE IF IsQuoted(toks[i]) THEN ParseOk(Str(Tail(toks[i])), i + 1)
  ELSE IF toks[i] = LBracket
       THEN IF i + 1 <= Len(toks) /\ toks[i + 1] = RBracket
            THEN ParseOk(List(<<>>), i + 2)
            ELSE ParseItems(toks, i + 1, <<>>)
  ELSE IF toks[i] = LBrace
       THEN IF i + 1 <= Len(toks) /\ toks[i + 1] = RBrace
            THEN ParseOk(Dict(<<>>, <<>>), i + 2)
            ELSE ParseMembers(toks, i + 1, Dict(<<>>, <<>>))
  ELSE ParseFail

\* The items of a list after "[" or ",", up to and including "]".
ParseItems(toks, i, acc) ==
  LET item == ParseValue(toks, i)
  IN  IF ~item.ok \/ item.next > Len(toks) THEN ParseFail
      ELSE IF toks[item.next] = Comma
           THEN ParseItems(toks, item.next + 1, Append(acc, item.val))
      ELSE IF toks[item.next] = RBracket
           THEN ParseOk(List(Append(acc, item.val)), item.next + 1)
      ELSE ParseFail

\* The members of a dict after "{" or ",", up to and including "}".
ParseMembers(toks, i, acc) ==
  IF i + 1 > Len(toks) \/ ~IsQuoted(toks[i]) \/ toks[i + 1] # Colon THEN ParseFail
  ELSE LET member == ParseValue(toks, i + 2)
       IN  IF ~member.ok \/ member.next > Len(toks) THEN ParseFail
           ELSE IF toks[member.next] = Comma
                THEN ParseMembers(toks, member.next + 1,
                                  DictSet(acc, Tail(toks[i]), member.val))
           ELSE IF toks[member.next] = RBrace
                THEN ParseOk(DictSet(acc, Tail(toks[i]), member.val), member.next + 1)
           ELSE ParseFail

\* json.loads / json.load: ok is FALSE where Python raises JSONDecodeError
\* (no value, or text left after the value).
JsonLoads(text) ==
  LET r == ParseValue(text, 1)
  IN  IF r.ok /\ r.next = Len(text) + 1 THEN r ELSE ParseFail

(***************************************************************************)
(* State                                                                   *)
(***************************************************************************)
VARIABLES
  skills_list,     \* the argument of a call of normalize_skills
  normalized,      \* what the call returned
  raw_docs,        \* the names of the files in resume_query_dir/raw_docs
  resume_json,     \* resume_query_dir/document/resume.json: exists, text
  vectorstore_dir, \* resume_query_dir/vectorstore: exists, chunks
  extractor,       \* the texts the extraction chain may answer with, per file
  caller,          \* the script that is running: its __main__ module
  pc,              \* where the running script is
  error,           \* the exception that ended the script, or "none"
  console,         \* what the running script has printed
  pending,         \* convert_pdfs_to_json: the files glob has yet to yield
  all_resumes,     \* convert_pdfs_to_json: all_resumes
  result,          \* convert_pdfs_to_json: what it returned
  raw_outputs,     \* history: the raw_output of each iteration of this run
  run_start,       \* history: the two stores as the running script found them
  resumes_list,    \* json_resume_query: resumes_list
  vectorstore,     \* json_resume_query: the chunks of the FAISS index in memory
  query_docs,      \* json_resume_query: query_docs
  merged_context,  \* json_resume_query: merged_context, keys in insertion order
  context_text,    \* json_resume_query: context_text, as blocks of entries
  response,        \* json_resume_query: response
  answer_calls,    \* history: the calls of the answer chain in this run
  output           \* json_resume_query: what step 11 printed

normVars == <<skills_list, normalized>>
diskVars == <<raw_docs, resume_json, vectorstore_dir, extractor>>
procVars == <<caller, pc, error, console, run_start>>
convVars == <<pending, all_resumes, result, raw_outputs>>
queryVars == <<resumes_list, vectorstore, query_docs, merged_context,
               context_text, response, answer_calls, output>>
vars == <<normVars, diskVars, procVars, convVars, queryVars>>

\* A string of the model written as one symbol: a key or a fixed message.
K(name) == <<name>>

None == [some |-> FALSE, val |-> <<>>]
Some(v) == [some |-> TRUE, val |-> v]
NoFile == [exists |-> FALSE, data |-> <<>>]
File(data) == [exists |-> TRUE, data |-> data]
NoOutput == [kind |-> "none", text |-> <<>>]

\* The record file and the saved index as they stand.
Stores == [resume_json |-> resume_json, vectorstore_dir |-> vectorstore_dir]

(***************************************************************************)
(* pdf_to_json.py                                                          *)
(***************************************************************************)
PdfSuffix == <<".", "p", "d", "f">>

EndsWith(s, suffix) ==
  Len(s) >= Len(suffix) /\ SubSeq(s, Len(s) - Len(suffix) + 1, Len(s)) = suffix

\* input_path.glob("*.pdf"): the names the pattern matches; "*" matches
\* the empty string and a leading dot.
PdfGlob(dir) == {f \in dir : EndsWith(f, PdfSuffix)}

\* PurePath.stem: the name without its last suffix; a name whose only dot
\* is the first or the last character has no suffix.
Stem(name) ==
  LET dots == {i \in DOMAIN name : name[i] = "."}
      last == IF dots = {} THEN 0 ELSE CHOOSE i \in dots : \A j \in dots : j <= i
  IN  IF 1 < last /\ last < Len(name) THEN SubSeq(name, 1, last - 1) ELSE name

\* Every order in which the members of S can be enumerated.
RECURSIVE Orders(_)
Orders(S) ==
  IF S = {} THEN {<<>>}
  ELSE UNION {{<<x>> \o r : r \in Orders(S \ {x})} : x \in S}

\* The order in which glob yields the files: that of the directory
\* listing, which the code does not sort.
GlobOrders(dir) == Orders(PdfGlob(dir))

Strings(list) == [i \in DOMAIN list.xs |-> list.xs[i].s]
StrList(strs) == List([i \in DOMAIN strs |-> Str(strs[i])])

\* Lines 86-88: the stripped technologies of all projects.
ProjectTechnologies(parsed_core) ==
  LET projects == Get(parsed_core, K("projects"), List(<<>>)).xs
      techs(proj) == Strings(Get(proj, K("technologies"), List(<<>>)))
  IN  UNION {{Strip(techs(projects[i])[j]) : j \in DOMAIN techs(projects[i])}
               : i \in DOMAIN projects}

\* Lines 91-97: a dict gives its stripped name unless that is empty; a
\* string gives itself stripped, empty or not.
CertificationNames(parsed_core) ==
  LET certs == Get(parsed_core, K("certifications"), List(<<>>)).xs
      cname(cert) == Strip(Get(cert, K("name"), Str(<<>>)).s)
  IN  ({cname(certs[i]) : i \in {j \in DOMAIN certs : certs[j].k = "dict"}} \ {<<>>})
      \cup {Strip(certs[i].s) : i \in {j \in DOMAIN certs : certs[j].k = "str"}}

\* Lines 83-97: set(skills) and what the two loops add to it.
KeywordSet(skills, parsed_core) ==
  Range(skills) \cup ProjectTechnologies(parsed_core)
                \cup CertificationNames(parsed_core)

ResumeKeys ==
  <<K("name"), K("cv_directory_link"), K("unique_id"), K("designation"),
    K("technical_skills"), K("certifications"), K("projects"), K("keywords")>>

\* Lines 82-148: the records structured_resume can be for one parsed
\* output.  The fields kept are those the record's consumers read or that
\* depend on the input; the constant placeholders (ids, status, scores) and
\* the two timestamps are left out.
StructuredResumes(pdf_file, parsed_core) ==
  {Dict(ResumeKeys,
        <<Get(parsed_core, K("name"), Str(<<>>)),
          Str(<<"C", "V", "s", "/">> \o Stem(pdf_file)),
          Str(Stem(pdf_file)),
          Get(parsed_core, K("designation"), Str(<<>>)),
          StrList(skills),
          Get(parsed_core, K("certifications"), List(<<>>)),
          Get(parsed_core, K("projects"), List(<<>>)),
          StrList(keywords)>>)
     : <<skills, keywords>> \in
         UNION {{<<sk, kw>> : kw \in SortedByLower(KeywordSet(sk, parsed_core))}
                  : sk \in normalize_skills(
                              Strings(Get(parsed_core, K("skills"), List(<<>>))))}}

\* A variant of line 79 that falls back to an empty field map when the
\* text is no JSON.
ParsedCoreLenient(raw_output) ==
  IF JsonLoads(raw_output).ok THEN JsonLoads(raw_output)
  ELSE ParseOk(Dict(<<>>, <<>>), 0)

\* Line 79: json.loads(raw_output)
ParsedCore(raw_output) == JsonLoads(raw_output)

\* A variant of line 157 that opens the file in mode "a".
WriteTextAppend(prior, text) == prior \o text

\* open(output_path, "w"): the prior content is truncated away.
WriteText(prior, text) == text

Line(msg, file, n) == [msg |-> msg, file |-> file, n |-> n]

\* Lines 66-70: the call starts; glob lists the directory.
ConvertEnter ==
  /\ pc = "convert"
  /\ all_resumes' = <<>>
  /\ pending' \in GlobOrders(raw_docs)
  /\ pc' = "loop"
  /\ UNCHANGED <<normVars, diskVars, caller, error, console, run_start,
                 result, raw_outputs, queryVars>>

\* Lines 70-153: one iteration of the loop over the PDF files.
ProcessPdf ==
  /\ pc = "loop"
  /\ pending # <<>>
  /\ \E raw_output \in extractor[Head(pending)] :
       LET pdf_file == Head(pending)
           parsed == ParsedCore(raw_output)
           processing == Append(console, Line("Processing", pdf_file, 0))
       IN  /\ pending' = Tail(pending)
           /\ raw_outputs' = Append(raw_outputs, raw_output)
           /\ IF ~parsed.ok
              THEN \* except json.JSONDecodeError
                   /\ console' = Append(processing, Line("Failed to parse", pdf_file, 0))
                   /\ UNCHANGED <<all_resumes, pc, error>>
              ELSE IF parsed.val.k # "dict"
              THEN \* parsed_core.get on a list or a string
                   /\ console' = processing
                   /\ error' = "AttributeError"
                   /\ pc' = "idle"
                   /\ UNCHANGED all_resumes
              ELSE /\ console' = processing
                   /\ \E structured_resume \in StructuredResumes(pdf_file, parsed.val) :
                        all_resumes' = Append(all_resumes, structured_resume)
                   /\ UNCHANGED <<pc, error>>
  /\ UNCHANGED <<normVars, diskVars, caller, run_start, result, queryVars>>

\* Lines 155-161: the combined JSON is written and the list returned.
SaveCombined ==
  /\ pc = "loop"
  /\ pending = <<>>
  /\ resume_json' = File(WriteText(resume_json.data, JsonDumps(List(all_resumes))))
  /\ console' = Append(console, Line("Processed", <<>>, Len(all_resumes)))
  /\ result' = Some(all_resumes)
  /\ pc' = IF caller = "json_resume_query" THEN "q_load" ELSE "idle"
  /\ UNCHANGED <<normVars, raw_docs, vectorstore_dir, extractor, caller, error,
                 run_start, pending, all_resumes, raw_outputs, queryVars>>

\* Lines 165-166: pdf_to_json.py run as a script.
StartPdfToJson ==
  /\ pc = "idle"
  /\ caller' = "pdf_to_json"
  /\ pc' = "convert"
  /\ error' = "none"
  /\ console' = <<>>
  /\ run_start' = Stores
  /\ pending' = <<>>
  /\ all_resumes' = <<>>
  /\ result' = None
  /\ raw_outputs' = <<>>
  /\ resumes_list' = <<>>
  /\ vectorstore' = <<>>
  /\ query_docs' = <<>>
  /\ merged_context' = <<>>
  /\ context_text' = <<>>
  /\ response' = <<>>
  /\ answer_calls' = 0
  /\ output' = NoOutput
  /\ UNCHANGED <<normVars, diskVars>>

(***************************************************************************)
(* json_resume_query.py                                                    *)
(***************************************************************************)
\* A variant of line 28 without the size test.
NeedsIngestionNoSize(file) == ~file.exists

\* Line 28: not resume_json_path.exists() or st_size == 0
NeedsIngestion(file) == ~file.exists \/ Len(file.data) = 0

\* Lines 25-30: the script starts; the record file is generated if it is
\* absent or empty.
StartQuery ==
  /\ pc = "idle"
  /\ caller' = "json_resume_query"
  /\ error' = "none"
  /\ run_start' = Stores
  /\ IF NeedsIngestion(resume_json)
     THEN /\ console' = <<Line("Resume JSON not found or empty", <<>>, 0)>>
          /\ pc' = "convert"
     ELSE /\ console' = <<>>
          /\ pc' = "q_load"
  /\ pending' = <<>>
  /\ all_resumes' = <<>>
  /\ result' = None
  /\ raw_outputs' = <<>>
  /\ resumes_list' = <<>>
  /\ vectorstore' = <<>>
  /\ query_docs' = <<>>
  /\ merged_context' = <<>>
  /\ context_text' = <<>>
  /\ response' = <<>>
  /\ answer_calls' = 0
  /\ output' = NoOutput
  /\ UNCHANGED <<normVars, diskVars>>

\* Lines 32-34: json.load of the record file.
LoadResumes ==
  /\ pc = "q_load"
  /\ LET loaded == JsonLoads(resume_json.data)
     IN  IF ~resume_json.exists
         THEN /\ error' = "FileNotFoundError"
              /\ pc' = "idle"
              /\ UNCHANGED resumes_list
         ELSE IF ~loaded.ok
         THEN /\ error' = "JSONDecodeError"
              /\ pc' = "idle"
              /\ UNCHANGED resumes_list
         ELSE /\ resumes_list' = loaded.val.xs
              /\ pc' = "q_index"
              /\ UNCHANGED error
  /\ UNCHANGED <<normVars, diskVars, caller, console, run_start, convVars,
                 vectorstore, query_docs, merged_context, context_text, response,
                 answer_calls, output>>

\* Lines 39-46: the Document of one resume.  Its text is the keywords line
\* followed by the dumped record; the model keeps the keywords line.
DocumentOf(resume) ==
  LET keywords == Strings(Get(resume, K("keywords"), List(<<>>)))
  IN  [page_content |-> IF keywords \in {<<>>, << <<>> >>} THEN <<K("None")>>
                        ELSE keywords,
       metadata |->
         Dict(<<K("name"), K("unique_id"), K("designation")>>,
              <<Get(resume, K("name"), Str(<<>>)),
                Get(resume, K("unique_id"), Str(<<>>)),
                Get(resume, K("designation"), Str(<<>>))>>)]

\* The number of chunks the splitter cuts one document into.  The dumped
\* record is longer than chunk_size, so a document gives several chunks;
\* the model gives each document the same number.
ChunksPerDoc == 2

\* Lines 49-50: split_documents.  A chunk is a part of its document's text
\* and carries a copy of the document's metadata.
RECURSIVE SplitDocuments(_)
SplitDocuments(documents) ==
  IF documents = <<>> THEN <<>>
  ELSE [part \in 1..ChunksPerDoc |->
          [page_content |-> [part |-> part, of |-> Head(documents).page_content,
                             extract |-> FALSE],
           metadata |-> Head(documents).metadata]]
       \o SplitDocuments(Tail(documents))

\* Lines 37-50: the chunks built from resumes_list.
IndexedChunks(resumes) ==
  SplitDocuments([i \in DOMAIN resumes |-> DocumentOf(resumes[i])])

\* Line 56: FAISS.from_documents reads the vector size off the first
\* embedding and raises IndexError when there is none.
FaissBuildable(chunks) == chunks # <<>>

\* A variant of line 56 that reuses the saved index when there is one
\* (FAISS.load_local) instead of building it anew.
FaissLoadLocal(chunks, persisted) ==
  IF persisted.exists THEN persisted.data ELSE chunks

\* Line 56: the chunks the index of this run is made of.
FaissFromDocuments(chunks, persisted) == chunks

\* Lines 36-57: documents, chunks, the index in memory and its saved copy.
BuildIndex ==
  /\ pc = "q_index"
  /\ LET chunks == IndexedChunks(resumes_list)
     IN  IF ~FaissBuildable(chunks)
         THEN /\ error' = "IndexError"
              /\ pc' = "idle"
              /\ UNCHANGED <<vectorstore, vectorstore_dir>>
         ELSE /\ vectorstore' = FaissFromDocuments(chunks, vectorstore_dir)
              /\ vectorstore_dir' = File(vectorstore')
              /\ pc' = "q_retrieve"
              /\ UNCHANGED error
  /\ UNCHANGED <<normVars, raw_docs, resume_json, extractor, caller, console,
                 run_start, convVars, resumes_list, query_docs, merged_context,
                 context_text, response, answer_calls, output>>

\* The most chunks one retrieval returns.
MaxRetrieved == 3

\* Every sequence of at most n distinct members of S.
RECURSIVE DistinctSeqs(_, _)
DistinctSeqs(S, n) ==
  IF n = 0 THEN {<<>>}
  ELSE {<<>>} \cup UNION {{<<x>> \o r : r \in DistinctSeqs(S \ {x}, n - 1)} : x \in S}

\* LLMChainExtractor: the chunk cut down to its relevant span, metadata kept.
Compressed(chunk) == [chunk EXCEPT !.page_content.extract = TRUE]

\* Lines 62-70 and 80: the retriever unions the chunks found for the query
\* variants without repeats and compresses each; a chunk judged irrelevant
\* is dropped.  Which chunks come back, and in which order, is up to the
\* embedding and the LLM.
Retrievals(index) ==
  {[i \in DOMAIN found |-> Compressed(found[i])]
     : found \in DistinctSeqs(Range(index), MaxRetrieved)}

\* Lines 77-80: the query is read and the chunks retrieved.
Retrieve ==
  /\ pc = "q_retrieve"
  /\ query_docs' \in Retrievals(vectorstore)
  /\ pc' = "q_merge"
  /\ UNCHANGED <<normVars, diskVars, caller, error, console, run_start, convVars,
                 resumes_list, vectorstore, merged_context, context_text,
                 response, answer_calls, output>>

\* Line 85: doc.metadata.get("unique_id", "unknown")
Uid(doc) == Get(doc.metadata, K("unique_id"), Str(K("unknown"))).s

\* Lines 87-90: the text appended for one chunk under the key uid.
Entry(doc, uid) ==
  [name |-> Get(doc.metadata, K("name"), Str(K("N/A"))).s,
   designation |-> Get(doc.metadata, K("designation"), Str(K("N/A"))).s,
   resume_id |-> uid,
   content |-> doc.page_content]

\* A variant of line 86 that groups runs of consecutive chunks, in the way
\* of itertools.groupby: a key seen again after another key opens a new block.
AppendUnderRuns(merged, uid, entry) ==
  IF merged # <<>> /\ merged[Len(merged)].uid = uid
  THEN [merged EXCEPT ![Len(merged)].parts = Append(@, entry)]
  ELSE Append(merged, [uid |-> uid, parts |-> <<entry>>])

\* merged_context[uid].append(entry) on a defaultdict(list): a new key goes
\* last, an old key keeps its place.
AppendUnder(merged, uid, entry) ==
  IF \E i \in DOMAIN merged : merged[i].uid = uid
  THEN [i \in DOMAIN merged |->
          IF merged[i].uid = uid
          THEN [merged[i] EXCEPT !.parts = Append(@, entry)]
          ELSE merged[i]]
  ELSE Append(merged, [uid |-> uid, parts |-> <<entry>>])

\* Lines 83-91: the loop over query_docs.
RECURSIVE MergeChunks(_, _)
MergeChunks(merged, docs) ==
  IF docs = <<>> THEN merged
  ELSE MergeChunks(AppendUnder(merged, Uid(Head(docs)), Entry(Head(docs), Uid(Head(docs)))),
                   Tail(docs))

\* Lines 82-95: the chunks merged by candidate and joined into the context.
MergeContext ==
  /\ pc = "q_merge"
  /\ merged_context' = MergeChunks(<<>>, query_docs)
  /\ context_text' = [i \in DOMAIN merged_context' |-> merged_context'[i].parts]
  /\ pc' = "q_generate"
  /\ UNCHANGED <<normVars, diskVars, caller, error, console, run_start, convVars,
                 resumes_list, vectorstore, query_docs, response, answer_calls,
                 output>>

\* The texts the answer chain may come back with: an empty candidate list,
\* one candidate, a refusal in prose, and JSON after a line of prose.
AnswerTexts ==
  LET empty == Dict(<<K("candidates")>>, <<List(<<>>)>>)
      one == Dict(<<K("candidates")>>,
                  <<List(<<Dict(<<K("name"), K("unique_id")>>,
                                <<Str(<<"A">>), Str(<<"a">>)>>)>>)>>)
  IN  {JsonDumps(empty), JsonDumps(one), <<Word(K("Sorry"))>>,
       <<Word(K("Here"))>> \o JsonDumps(empty)}

\* Lines 97-101: the answer chain is invoked.
Generate ==
  /\ pc = "q_generate"
  /\ response' \in AnswerTexts
  /\ answer_calls' = answer_calls + 1
  /\ pc' = "q_display"
  /\ UNCHANGED <<normVars, diskVars, caller, error, console, run_start, convVars,
                 resumes_list, vectorstore, query_docs, merged_context,
                 context_text, output>>

\* A variant of lines 107-108 that answers a response that is no JSON with
\* an empty candidate list.
DisplayedSynthesized(text) ==
  IF JsonLoads(text).ok
  THEN [kind |-> "json", text |-> JsonDumps(JsonLoads(text).val)]
  ELSE [kind |-> "json", text |-> JsonDumps(Dict(<<K("candidates")>>, <<List(<<>>)>>))]

\* Lines 104-108: what is printed for a response.
Displayed(text) ==
  LET parsed_json == JsonLoads(text)
  IN  IF parsed_json.ok
      THEN [kind |-> "json", text |-> JsonDumps(parsed_json.val)]
      ELSE [kind |-> "invalid", text |-> text]

\* Lines 103-108: the result is displayed and the script ends.
Display ==
  /\ pc = "q_display"
  /\ output' = Displayed(response)
  /\ pc' = "idle"
  /\ UNCHANGED <<normVars, diskVars, caller, error, console, run_start, convVars,
                 resumes_list, vectorstore, query_docs, merged_context,
                 context_text, response, answer_calls>>

\* Lines 49-57: one call of normalize_skills.
NormalizeSkills ==
  /\ pc = "normalize_skills"
  /\ \E skills \in normalize_skills(skills_list) : normalized' = Some(skills)
  /\ pc' = "idle"
  /\ UNCHANGED <<skills_list, diskVars, caller, error, console, run_start,
                 convVars, queryVars>>

(***************************************************************************)
(* Inputs                                                                  *)
(***************************************************************************)
SeqsUpTo(S, n) == UNION {[1..k -> S] : k \in 0..n}

sGo == <<"G", "o">>
sgo == <<"g", "o">>
sgRPC == <<"g", "R", "P", "C">>

\* The files a directory of the model may hold: two resumes, a file whose
\* name is only the suffix, one with the suffix twice, and a file that is
\* no PDF.
aPdf == <<"a">> \o PdfSuffix
bPdf == <<"b">> \o PdfSuffix
aTxt == <<"a", ".", "t", "x", "t">>
DocumentNames == {aPdf, bPdf, PdfSuffix, PdfSuffix \o PdfSuffix, aTxt}

\* The field maps the extraction chain answers with in the runs of the
\* scripts: a full one and one with most keys missing.
CoreA ==
  Dict(<<K("name"), K("designation"), K("skills"), K("projects"), K("certifications")>>,
       <<Str(<<"A">>), Str(<<"E">>), StrList(<<sGo>>),
         List(<<Dict(<<K("technologies")>>, <<StrList(<<sgRPC>>)>>)>>),
         List(<<>>)>>)
CoreB == Dict(<<K("name")>>, <<Str(<<"B">>)>>)

\* The answers of the extraction chain: the two field maps, text that is
\* no JSON, and JSON that is no field map.
NotJson == <<Word(K("not")), Word(K("json"))>>
ExtractionTexts == {JsonDumps(CoreA), JsonDumps(CoreB), NotJson, JsonDumps(List(<<>>))}

\* The extraction chain reading resumes: a.pdf is the resume of A and any
\* other file that of B; the chain answers with the resume's field map,
\* with text that is no JSON, or with JSON that is no field map.
ReadsResumes ==
  [f \in DocumentNames |->
     {JsonDumps(IF f = aPdf THEN CoreA ELSE CoreB), NotJson, JsonDumps(List(<<>>))}]

Idle(start_pc, start_caller) ==
  /\ caller = start_caller
  /\ pc = start_pc
  /\ error = "none"
  /\ console = <<>>
  /\ run_start = Stores
  /\ pending = <<>>
  /\ all_resumes = <<>>
  /\ result = None
  /\ raw_outputs = <<>>
  /\ resumes_list = <<>>
  /\ vectorstore = <<>>
  /\ query_docs = <<>>
  /\ merged_context = <<>>
  /\ context_text = <<>>
  /\ response = <<>>
  /\ answer_calls = 0
  /\ output = NoOutput

(***************************************************************************)
(* Spec: the two scripts run one after the other, any number of times,     *)
(* over a directory of at most two resumes and possibly a file that is no  *)
(* PDF, starting with no record file or an empty one.                      *)
(***************************************************************************)
Init ==
  /\ skills_list = <<>>
  /\ normalized = None
  /\ raw_docs \in SUBSET {aPdf, bPdf, aTxt}
  /\ resume_json \in {NoFile, File(<<>>)}
  /\ vectorstore_dir = NoFile
  /\ extractor = ReadsResumes
  /\ Idle("idle", "none")

Next ==
  \/ StartPdfToJson
  \/ StartQuery
  \/ ConvertEnter
  \/ ProcessPdf
  \/ SaveCombined
  \/ LoadResumes
  \/ BuildIndex
  \/ Retrieve
  \/ MergeContext
  \/ Generate
  \/ Display

Spec == Init /\ [][Next]_vars

(***************************************************************************)
(* SpecIngest: one run of convert_pdfs_to_json over any directory, the     *)
(* output path absent, empty or holding an earlier collection.             *)
(***************************************************************************)
MaxDocs == 4

cPdf == <<"c">> \o PdfSuffix
PriorFiles ==
  {NoFile, File(<<>>), File(JsonDumps(List(<<>>)))}
  \cup {File(JsonDumps(List(<<r>>))) : r \in StructuredResumes(cPdf, CoreA)}

InitIngest ==
  /\ skills_list = <<>>
  /\ normalized = None
  /\ raw_docs \in {d \in SUBSET DocumentNames : Cardinality(d) <= MaxDocs}
  /\ resume_json \in PriorFiles
  /\ vectorstore_dir = NoFile
  /\ extractor = [f \in DocumentNames |-> ExtractionTexts]
  /\ Idle("convert", "pdf_to_json")

NextIngest ==
  \/ ConvertEnter
  \/ ProcessPdf
  \/ SaveCombined

SpecIngest == InitIngest /\ [][NextIngest]_vars

(***************************************************************************)
(* SpecNorm: normalize_skills on every short list of short strings.        *)
(***************************************************************************)
MaxSkills == 2
MaxSkillLen == 3
SkillChars == {"a", "A", "B", " ", ",", "(", ")"}

InitNorm ==
  /\ skills_list \in SeqsUpTo(SeqsUpTo(SkillChars, MaxSkillLen), MaxSkills)
  /\ normalized = None
  /\ raw_docs = {}
  /\ resume_json = NoFile
  /\ vectorstore_dir = NoFile
  /\ extractor = [f \in DocumentNames |-> {}]
  /\ Idle("normalize_skills", "none")

NextNorm == NormalizeSkills

SpecNorm == InitNorm /\ [][NextNorm]_vars

(***************************************************************************)
(* SpecRecord: convert_pdfs_to_json over a directory of one resume, for    *)
(* every field map of a small family: skills, project technologies and     *)
(* certifications that differ in case and in surrounding blanks.           *)
(***************************************************************************)
MaxCoreSkills == 1
MaxTechs == 2
MaxCerts == 1

RecordSkills ==
  SeqsUpTo({sGo, sgo, <<"G", "o", " ", "(", "g", "R", "P", "C", ")">>}, MaxCoreSkills)
RecordTechs == SeqsUpTo({sGo, sgo, sgRPC, <<" ", "g", "o">>}, MaxTechs)
RecordCerts ==
  SeqsUpTo({Str(sGo), Str(<<>>), Dict(<<K("name")>>, <<Str(<<"g", "o", " ">>)>>),
            Dict(<<>>, <<>>)}, MaxCerts)
RecordProjects ==
  {<<>>, <<Dict(<<K("name")>>, <<Str(<<"P">>)>>)>>}
  \cup {<<Dict(<<K("technologies")>>, <<StrList(t)>>)>> : t \in RecordTechs}

RecordCores ==
  {CoreB}
  \cup {Dict(<<K("name"), K("skills"), K("projects"), K("certifications")>>,
             <<Str(<<"A">>), StrList(sk), List(pr), List(ce)>>)
          : sk \in RecordSkills, pr \in RecordProjects, ce \in RecordCerts}

InitRecord ==
  /\ skills_list = <<>>
  /\ normalized = None
  /\ raw_docs = {aPdf}
  /\ resume_json = NoFile
  /\ vectorstore_dir = NoFile
  /\ extractor \in {[f \in DocumentNames |-> {JsonDumps(core)}] : core \in RecordCores}
  /\ Idle("convert", "pdf_to_json")

SpecRecord == InitRecord /\ [][NextIngest]_vars

(***************************************************************************)
(* Properties                                                              *)
(***************************************************************************)
NoCaseDuplicates(strs) ==
  \A i, j \in DOMAIN strs : i # j => Lower(strs[i]) # Lower(strs[j])

SortedNoCase(strs) ==
  \A i, j \in DOMAIN strs : i < j => ~StrLess(Lower(strs[j]), Lower(strs[i]))

Field(resume, key) == Get(resume, K(key), Str(<<>>)).s
ListField(resume, key) == Strings(Get(resume, K(key), List(<<>>)))

\* The files of the run's "Processing" lines, in order.
ProcessedFiles ==
  LET IsProcessing(line) == line.msg = "Processing"
      lines == SelectSeq(console, IsProcessing)
  IN  [i \in DOMAIN lines |-> lines[i].file]

\* The indices of the iterations whose raw output was JSON.
RECURSIVE Ascending(_)
Ascending(S) ==
  IF S = {} THEN <<>>
  ELSE LET m == CHOOSE x \in S : \A y \in S : x <= y
       IN  <<m>> \o Ascending(S \ {m})

ParsedIterations ==
  Ascending({i \in DOMAIN raw_outputs : JsonLoads(raw_outputs[i]).ok})

\* The files whose raw output was JSON, in the order they were processed.
ParsedFiles == [j \in DOMAIN ParsedIterations |-> ProcessedFiles[ParsedIterations[j]]]

\* C1: whatever normalize_skills returns has no two entries equal when
\* compared case-insensitively, no empty or blank entry, and is sorted
\* case-insensitively.
C1_NormalizedDedupSorted ==
  normalized.some =>
    /\ NoCaseDuplicates(normalized.val)
    /\ \A i \in DOMAIN normalized.val : Strip(normalized.val[i]) # <<>>
    /\ SortedNoCase(normalized.val)

\* C2: a run in which every raw output is either no JSON or a field map
\* does not raise, processes every PDF of the directory and, once it has
\* returned, holds one record per output that was JSON and none for the
\* others: N - F records, returned and written.
C2_SkipAndContinue ==
  \E loads \in {[i \in DOMAIN raw_outputs |-> JsonLoads(raw_outputs[i])]} :
    LET N == Cardinality(PdfGlob(raw_docs))
        F == Cardinality({i \in DOMAIN loads : ~loads[i].ok})
        field_maps == \A i \in DOMAIN loads : loads[i].ok => loads[i].val.k = "dict"
    IN  (caller = "pdf_to_json" /\ field_maps) =>
          /\ error = "none"
          /\ pc = "idle" =>
               /\ result.some
               /\ Range(ProcessedFiles) = PdfGlob(raw_docs)
               /\ Len(raw_outputs) = N
               /\ Len(result.val) = N - F
               /\ \E loaded \in {JsonLoads(resume_json.data)} :
                    loaded.ok /\ Len(loaded.val.xs) = N - F
               /\ \E files \in {ParsedFiles} :
                    /\ Len(files) = N - F
                    /\ \A j \in DOMAIN result.val :
                         Field(result.val[j], "unique_id") = Stem(files[j])

\* C2 witness: three PDFs, one of them answered with text that is no JSON,
\* and the run has returned two records.
C2_Witness ==
  /\ pc = "idle"
  /\ caller = "pdf_to_json"
  /\ Cardinality(PdfGlob(raw_docs)) = 3
  /\ Len(raw_outputs) = 3
  /\ raw_outputs[2] = NotJson
  /\ \A i \in {1, 3} : JsonLoads(raw_outputs[i]).ok /\ JsonLoads(raw_outputs[i]).val.k = "dict"
  /\ result.some
  /\ Len(result.val) = 2

\* C3: the records a run returns are in lexical order of the names of the
\* files they come from.
C3_LexicalOrder ==
  (caller = "pdf_to_json" /\ result.some) =>
    \A i, j \in DOMAIN ParsedFiles : i < j => StrLess(ParsedFiles[i], ParsedFiles[j])

\* The stripped technologies and the certification names of a record, read
\* off the record's own projects and certifications.
RecordTechnologies(resume) ==
  LET projects == Get(resume, K("projects"), List(<<>>)).xs
  IN  UNION {{Strip(t) : t \in Range(ListField(projects[i], "technologies"))}
               : i \in DOMAIN projects}

RecordCertNames(resume) ==
  LET certs == Get(resume, K("certifications"), List(<<>>)).xs
  IN  {Strip(IF certs[i].k = "dict" THEN Field(certs[i], "name") ELSE certs[i].s)
         : i \in DOMAIN certs}

\* C4: in every record, keywords holds every technical skill, only entries
\* that come from the skills, the project technologies or the
\* certification names, no two entries equal case-insensitively, and is
\* sorted case-insensitively.
C4_KeywordsUnion ==
  \A n \in DOMAIN all_resumes :
    LET resume == all_resumes[n]
        keywords == ListField(resume, "keywords")
        skills == ListField(resume, "technical_skills")
    IN  /\ Range(skills) \subseteq Range(keywords)
        /\ Range(keywords) \subseteq
             Range(skills) \cup RecordTechnologies(resume) \cup RecordCertNames(resume)
        /\ NoCaseDuplicates(keywords)
        /\ SortedNoCase(keywords)

\* The script has merged the retrieved chunks.
Merged ==
  /\ caller = "json_resume_query"
  /\ \/ pc \in {"q_generate", "q_display"}
     \/ pc = "idle" /\ output.kind # "none"

\* The distinct unique_ids of a sequence of chunks, in order of first
\* appearance.
RECURSIVE FirstSeen(_, _)
FirstSeen(docs, seen) ==
  IF docs = <<>> THEN <<>>
  ELSE IF Uid(Head(docs)) \in seen THEN FirstSeen(Tail(docs), seen)
  ELSE <<Uid(Head(docs))>> \o FirstSeen(Tail(docs), seen \cup {Uid(Head(docs))})

\* The retrieved chunks whose metadata unique_id is uid, in retrieval order.
ChunksOf(uid) ==
  LET Same(doc) == Uid(doc) = uid
  IN  SelectSeq(query_docs, Same)

\* C5: the evidence blocks are keyed by distinct unique_ids, in order of
\* first appearance among the retrieved chunks; each block holds exactly
\* the retrieved chunks of its unique_id, in retrieval order, each under
\* its own name, designation and id; the context is the blocks in order.
C5_MergeByCandidate ==
  Merged =>
    /\ [i \in DOMAIN merged_context |-> merged_context[i].uid] = FirstSeen(query_docs, {})
    /\ \A i \in DOMAIN merged_context :
         LET chunks == ChunksOf(merged_context[i].uid)
         IN  /\ Len(merged_context[i].parts) = Len(chunks)
             /\ \A n \in DOMAIN chunks :
                  /\ merged_context[i].parts[n].content = chunks[n].page_content
                  /\ merged_context[i].parts[n].resume_id = Uid(chunks[n])
                  /\ merged_context[i].parts[n].name
                       = Get(chunks[n].metadata, K("name"), Str(<<>>)).s
                  /\ merged_context[i].parts[n].designation
                       = Get(chunks[n].metadata, K("designation"), Str(<<>>)).s
    /\ Len(context_text) = Len(merged_context)
    /\ \A i \in DOMAIN context_text : context_text[i] = merged_context[i].parts

\* C5 witness: three chunks retrieved, the first and the third of one
\* candidate and the second of another, merged into two blocks.
C5_Witness ==
  /\ Merged
  /\ Len(query_docs) = 3
  /\ Uid(query_docs[1]) = Uid(query_docs[3])
  /\ Uid(query_docs[1]) # Uid(query_docs[2])
  /\ Len(merged_context) = 2

\* C6: no two records of a returned collection share a unique_id, and each
\* record's unique_id is the stem of the name of the file it comes from.
C6_UniqueIds ==
  (caller = "pdf_to_json" /\ result.some) =>
    /\ \A i, j \in DOMAIN result.val :
         i # j => Field(result.val[i], "unique_id") # Field(result.val[j], "unique_id")
    /\ \A i \in DOMAIN result.val :
         Field(result.val[i], "unique_id") = Stem(ParsedFiles[i])

\* C7: the answer chain is invoked at most once in a query run and exactly
\* once when something is displayed; a response that parses is displayed
\* as the parsed value, one that does not is displayed unchanged under the
\* invalid-JSON notice.
C7_AnswerOnce ==
  /\ answer_calls <= 1
  /\ output.kind # "none" =>
       /\ answer_calls = 1
       /\ IF JsonLoads(response).ok
          THEN /\ output.kind = "json"
               /\ JsonLoads(output.text).ok
               /\ JsonLoads(output.text).val = JsonLoads(response).val
          ELSE /\ output.kind = "invalid"
               /\ output.text = response

\* C7 witness: a response that is no JSON has been displayed.
C7_Witness ==
  /\ pc = "idle"
  /\ output.kind = "invalid"
  /\ ~JsonLoads(response).ok
  /\ answer_calls = 1

\* The record file the running script found was absent or empty.
StartedWithoutCollection ==
  ~run_start.resume_json.exists \/ run_start.resume_json.data = <<>>

\* C8: a query run that found the record file absent or empty has run the
\* ingestion before it loads, indexes or retrieves anything; no query run
\* retrieves from, or displays an answer over, an empty corpus; a query run
\* that ends without displaying anything ends with an exception.
C8_NoSilentEmptyCorpus ==
  caller = "json_resume_query" =>
    /\ (StartedWithoutCollection
          /\ pc \in {"q_load", "q_index", "q_retrieve", "q_merge", "q_generate", "q_display"})
         => result.some
    /\ (pc \in {"q_retrieve", "q_merge", "q_generate", "q_display"} \/ output.kind # "none")
         => /\ resumes_list # <<>>
            /\ vectorstore # <<>>
            /\ (StartedWithoutCollection => result.some)
    /\ (pc = "idle" /\ output.kind = "none") => error # "none"

\* C8 witness: a query run that found no record file ran the ingestion,
\* every document failed extraction, and the script ended with an exception
\* instead of an answer.
C8_Witness ==
  /\ caller = "json_resume_query"
  /\ pc = "idle"
  /\ StartedWithoutCollection
  /\ result.some
  /\ result.val = <<>>
  /\ raw_outputs # <<>>
  /\ error = "IndexError"
  /\ output.kind = "none"

\* C9: once convert_pdfs_to_json has returned, the output path holds the
\* dump of the returned list and nothing else, and loading it gives the
\* returned records in the returned order.
C9_WrittenIsReturned ==
  (caller = "pdf_to_json" /\ result.some) =>
    /\ resume_json.exists
    /\ \E loaded \in {JsonLoads(resume_json.data)} :
         /\ loaded.ok
         /\ loaded.val.k = "list"
         /\ loaded.val.xs = result.val

\* C9 witness: the output path held an earlier collection of one record and
\* the run returned two records.
C9_Witness ==
  /\ caller = "pdf_to_json"
  /\ result.some
  /\ Len(result.val) = 2
  /\ run_start.resume_json.exists
  /\ JsonLoads(run_start.resume_json.data).ok
  /\ Len(JsonLoads(run_start.resume_json.data).val.xs) = 1

\* The name, unique_id and designation a chunk carries are those of the
\* record.
Carries(chunk, resume) ==
  /\ Get(chunk.metadata, K("name"), Str(<<>>)) = Get(resume, K("name"), Str(<<>>))
  /\ Get(chunk.metadata, K("unique_id"), Str(<<>>)) = Get(resume, K("unique_id"), Str(<<>>))
  /\ Get(chunk.metadata, K("designation"), Str(<<>>))
       = Get(resume, K("designation"), Str(<<>>))

\* The query script holds an index.
Indexed ==
  /\ caller = "json_resume_query"
  /\ \/ pc \in {"q_retrieve", "q_merge", "q_generate", "q_display"}
     \/ pc = "idle" /\ output.kind # "none"

\* C10: the index a query run retrieves from is made of chunks of the
\* records the record file holds at that moment, every record with its
\* chunks and every chunk with its record's name, unique_id and
\* designation; it is the index the run saved; and every retrieved chunk
\* carries the metadata of a chunk of that index.
C10_IndexOfCurrentCollection ==
  Indexed =>
    \E loaded \in {JsonLoads(resume_json.data)} :
      LET persisted == loaded.val.xs
      IN
        /\ loaded.ok
        /\ \A c \in DOMAIN vectorstore :
             \E r \in DOMAIN persisted : Carries(vectorstore[c], persisted[r])
        /\ \A r \in DOMAIN persisted :
             \E c \in DOMAIN vectorstore : Carries(vectorstore[c], persisted[r])
        /\ vectorstore_dir = File(vectorstore)
        /\ \A d \in DOMAIN query_docs :
             /\ \E c \in DOMAIN vectorstore :
                  query_docs[d].metadata = vectorstore[c].metadata
             /\ \E r \in DOMAIN persisted : Carries(query_docs[d], persisted[r])

\* C10 witness: a query run found a saved index with a chunk of a record
\* that the record file no longer holds, and has retrieved chunks.
C10_Witness ==
  /\ Indexed
  /\ query_docs # <<>>
  /\ run_start.vectorstore_dir.exists
  /\ \E c \in DOMAIN run_start.vectorstore_dir.data :
       \A r \in DOMAIN resumes_list :
         ~Carries(run_start.vectorstore_dir.data[c], resumes_list[r])

=============================================================================
